---- MODULE Spec2Model ----
(***************************************************************************)
(* Hot-reloadable configuration manager (package cfg, src/cfg/manager.go). *)
(*                                                                         *)
(* The process is modelled as a set of goroutines sharing the package      *)
(* variables initOnce, currentConfig, changeHandlers, handlerMutex and     *)
(* cfgLog: the callers of InitConfigWithLogger, the watcher loop           *)
(* (watchConfig), one reload execution per fired debounce timer, the       *)
(* detached callback goroutines, the callers of OnConfigChange and the     *)
(* callers of GetCfg.  The file system and fsnotify are the environment.   *)
(***************************************************************************)
EXTENDS Integers, Sequences, FiniteSets, TLC

VARIABLES
    file,           \* content of config.json on disk: a payload name or Absent
    once,           \* initOnce: "fresh", "running" (f executing), "done"
    caller,         \* per Init caller: pc, default payload, logger
    body,           \* the initOnce.Do closure: pc, its local `data`, what os.Stat
                    \* found, how os.WriteFile ended, its cfgLog.Errorf entries
    cfgLog,         \* package variable cfgLog (0 = nil)
    heap,           \* the T values allocated by `var cfg T`, by address
    currentConfig,  \* atomic.Pointer: address of the current snapshot, Nil
    watcher,        \* fsnotify watcher: "none", "created", "attached", "closed"
    loop,           \* watchConfig goroutine: "none", "running"
    events,         \* watcher.Events, oldest first
    errors,         \* number of errors waiting in watcher.Errors
    timer,          \* watchConfig's local `timer`: id of the last timer, 0 = nil
    timers,         \* state of every time.AfterFunc timer
    reload,         \* per fired timer: the reload closure's pc, data, index and
                    \* the entries it wrote to cfgLog (errs: Errorf, infos: Infof)
    handlerMutex,   \* holder of handlerMutex
    changeHandlers, \* sequence of registered handlers
    reg,            \* per OnConfigChange call: "idle", "locked", "done"
    cb,             \* per reload and handler: state of the goroutine `go h(anyCfg)`
    calls,          \* per reload and handler: number of invocations
    rd,             \* per GetCfg caller: pc and result
    ld,             \* per LoadConfig caller: pc, path, result, its watcher and loop
    crashed,        \* the process died of an unrecovered panic
    hist            \* history: stores in order, registrations seen at fan-out, the
                    \* fan-out rounds in order, the argument of every callback
                    \* invocation, the loop's error log entries, counters

vars == <<file, once, caller, body, cfgLog, heap, currentConfig, watcher, loop,
          events, errors, timer, timers, reload, handlerMutex, changeHandlers,
          reg, cb, calls, rd, ld, crashed, hist>>

----------------------------------------------------------------------------
(* Bounds of the model *)

MaxCallers == 2
MaxWrites == 2
MaxNoise == 2
MaxHandlers == 2
MaxReaders == 1
MaxLoaders == 2

Callers == 1..MaxCallers
Timers == 1..MaxWrites
Handlers == 1..MaxHandlers
Readers == 1..MaxReaders
Loaders == 1..MaxLoaders

----------------------------------------------------------------------------
(* Payloads and decoding *)

Absent == "absent"
Fields == {"port", "name"}
ZeroT == [f \in Fields |-> 0]

\* What a byte string holds: "A", "B" and "N" are valid JSON objects ("B" has
\* no name key, "N" has no port key), "T" is valid JSON whose name has the
\* wrong type, "S" is not valid JSON (the empty file and a file cut short
\* are of this kind).  0 = the key is not present.
PayloadEmptyDecodes(p) ==
    CASE p = "A" -> [syntax |-> FALSE, type |-> FALSE, set |-> [port |-> 1, name |-> 1]]
      [] p = "B" -> [syntax |-> FALSE, type |-> FALSE, set |-> [port |-> 2, name |-> 0]]
      [] p = "N" -> [syntax |-> FALSE, type |-> FALSE, set |-> [port |-> 0, name |-> 3]]
      [] p = "T" -> [syntax |-> FALSE, type |-> TRUE,  set |-> [port |-> 2, name |-> 0]]
      [] p = "S" -> [syntax |-> FALSE, type |-> FALSE, set |-> [port |-> 0, name |-> 0]]

Payload(p) ==
    CASE p = "A" -> [syntax |-> FALSE, type |-> FALSE, set |-> [port |-> 1, name |-> 1]]
      [] p = "B" -> [syntax |-> FALSE, type |-> FALSE, set |-> [port |-> 2, name |-> 0]]
      [] p = "N" -> [syntax |-> FALSE, type |-> FALSE, set |-> [port |-> 0, name |-> 3]]
      [] p = "T" -> [syntax |-> FALSE, type |-> TRUE,  set |-> [port |-> 2, name |-> 0]]
      [] p = "S" -> [syntax |-> TRUE,  type |-> FALSE, set |-> [port |-> 0, name |-> 0]]

FileContents == {"B", "T", "S"}
Defaults == {"A", "N", "S"}

\* json.Unmarshal(p, &cfg): a syntax error is found before anything is
\* written; a type error skips the offending key, decodes the rest and is
\* returned at the end; keys that are not present leave the field alone.
Unmarshal(p, cfg) ==
    IF Payload(p).syntax
    THEN [err |-> TRUE, cfg |-> cfg]
    ELSE [err |-> Payload(p).type,
          cfg |-> [f \in Fields |->
                     IF Payload(p).set[f] # 0 THEN Payload(p).set[f] ELSE cfg[f]]]

----------------------------------------------------------------------------
(* Addresses *)

Nil == 0
InitAddr == 1
ReloadAddr(t) == t + 1
LoadAddr(l) == MaxWrites + 1 + l
Addrs == 1..(MaxWrites + 1 + MaxLoaders)

Free == [k |-> "free", id |-> 0]

\* Type parameters: the type Init is called with, and any other type
InitType == "T"
OtherType == "U"

Init ==
    /\ file \in {Absent, "A", "T"}
    /\ once = "fresh"
    /\ caller = [c \in Callers |-> [pc |-> "idle", def |-> "A", log |-> 0]]
    /\ body = [pc |-> "none", by |-> 0, data |-> Absent, stat |-> "none",
               wrote |-> "none", errs |-> 0]
    /\ cfgLog = 0
    /\ heap = [a \in Addrs |-> ZeroT]
    /\ currentConfig = Nil
    /\ watcher = "none"
    /\ loop = "none"
    /\ events = <<>>
    /\ errors = 0
    /\ timer = 0
    /\ timers = [t \in Timers |-> "unused"]
    /\ reload = [t \in Timers |->
                   [pc |-> "none", data |-> Absent, idx |-> 1, failed |-> FALSE,
                    errs |-> 0, infos |-> 0]]
    /\ handlerMutex = Free
    /\ changeHandlers = <<>>
    /\ reg = [h \in Handlers |-> "idle"]
    /\ cb = [t \in Timers |-> [h \in Handlers |-> "none"]]
    /\ calls = [t \in Timers |-> [h \in Handlers |-> 0]]
    /\ rd = [r \in Readers |->
               [pc |-> "idle", typ |-> "T", floor |-> 0, at |-> 0, kind |-> "none",
                addr |-> Nil]]
    /\ ld = [l \in Loaders |->
               [pc |-> "idle", path |-> "none", stat |-> "none", res |-> "none",
                data |-> Absent, watcher |-> "none", loop |-> FALSE]]
    /\ crashed = FALSE
    /\ hist = [stores |-> <<>>, published |-> [a \in Addrs |-> ZeroT],
               writes |-> 0, noise |-> 0, bodyRuns |-> 0, bursts |-> 0,
               seen |-> [t \in Timers |-> {}], rounds |-> <<>>,
               args |-> [t \in Timers |-> [h \in Handlers |-> Nil]], errLogs |-> 0]

----------------------------------------------------------------------------
(* InitConfigWithLogger / InitConfig *)

\* initOnce.Do(f): the first call runs f; a call made while f runs blocks on
\* the Once's mutex; once f has returned or panicked every call skips f.
OnceReRun(o) ==
    CASE o = "fresh" -> "run"
      [] o = "running" -> "wait"
      [] o = "done" -> "run"

OnceNoWait(o) ==
    CASE o = "fresh" -> "run"
      [] o = "running" -> "skip"
      [] o = "done" -> "skip"

OnceDo(o) ==
    CASE o = "fresh" -> "run"
      [] o = "running" -> "wait"
      [] o = "done" -> "skip"

\* The state of the Once after f has panicked: Do marks it done in a deferred
\* call, so a panic ends it like a return does.
OnceRearmedByPanic == "fresh"

OnceAfterPanic == "done"

\* A panic inside f: the Once is marked done by its deferred store, the
\* panic unwinds into the caller, which recovers it or lets the process die.
BodyPanic(recovered) ==
    /\ once' = OnceAfterPanic
    /\ body' = [body EXCEPT !.pc = "panicked"]
    /\ caller' = [caller EXCEPT ![body.by].pc = "panicked"]
    /\ crashed' = ~recovered

\* InitConfigWithLogger[T](defaultConfigRaw, log), InitConfig[T](defaultConfigRaw)
CallInit(c, d) ==
    /\ ~crashed
    /\ caller[c].pc = "idle"
    /\ CASE OnceDo(once) = "run" ->
              /\ once' = "running"
              /\ caller' = [caller EXCEPT ![c] = [pc |-> "running", def |-> d, log |-> c]]
              /\ body' = [pc |-> "start", by |-> c, data |-> Absent,
                           stat |-> "none", wrote |-> "none", errs |-> 0]
              /\ hist' = [hist EXCEPT !.bodyRuns = @ + 1]
         [] OnceDo(once) = "wait" ->
              /\ caller' = [caller EXCEPT ![c].pc = "waiting"]
              /\ UNCHANGED <<once, body, hist>>
         [] OnceDo(once) = "skip" ->
              /\ caller' = [caller EXCEPT ![c].pc = "returned"]
              /\ UNCHANGED <<once, body, hist>>
    /\ UNCHANGED <<ld, file, cfgLog, heap, currentConfig, watcher, loop, events, errors,
                   timer, timers, reload, handlerMutex, changeHandlers, reg, cb,
                   calls, rd, crashed>>

\* A caller blocked in initOnce.Do proceeds once the Once lets it through.
InitWaitReturn(c) ==
    /\ ~crashed
    /\ caller[c].pc = "waiting"
    /\ OnceDo(once) = "skip"
    /\ caller' = [caller EXCEPT ![c].pc = "returned"]
    /\ UNCHANGED <<ld, file, once, body, cfgLog, heap, currentConfig, watcher, loop,
                   events, errors, timer, timers, reload, handlerMutex,
                   changeHandlers, reg, cb, calls, rd, crashed, hist>>

\* cfgLog = log; var cfg T; exePath, err := os.Executable()
BodyStart ==
    /\ ~crashed
    /\ body.pc = "start"
    /\ cfgLog' = caller[body.by].log
    /\ heap' = [heap EXCEPT ![InitAddr] = ZeroT]
    /\ \E ok \in BOOLEAN :
         IF ok
         THEN /\ body' = [body EXCEPT !.pc = "stat"]
              /\ UNCHANGED <<once, caller, crashed>>
         ELSE \E rec \in BOOLEAN : BodyPanic(rec)
    /\ UNCHANGED <<ld, file, currentConfig, watcher, loop, events, errors, timer,
                   timers, reload, handlerMutex, changeHandlers, reg, cb, calls,
                   rd, hist>>

\* os.Stat(configFilePath); os.IsNotExist(err)
BodyStat ==
    /\ ~crashed
    /\ body.pc = "stat"
    /\ body' = [body EXCEPT !.pc = IF file = Absent THEN "writeDefault" ELSE "read",
                             !.stat = IF file = Absent THEN "absent" ELSE "exists"]
    /\ UNCHANGED <<ld, file, once, caller, cfgLog, heap, currentConfig, watcher, loop,
                   events, errors, timer, timers, reload, handlerMutex,
                   changeHandlers, reg, cb, calls, rd, crashed, hist>>

\* os.WriteFile(name, data, 0644) opens the file with O_CREATE|O_TRUNC and
\* writes the data: it succeeds ("ok"), fails at the open and leaves the
\* path as it was ("nofile"), or fails at the write and leaves a file cut
\* short ("partial").
WriteOutcomes == {"ok", "nofile", "partial"}

WriteFile(f, data, outcome) ==
    CASE outcome = "ok" -> data
      [] outcome = "nofile" -> f
      [] outcome = "partial" -> "S"

\* _ = os.WriteFile(configFilePath, defaultConfigRaw, 0644): the error is dropped
BodyWriteDefault ==
    /\ ~crashed
    /\ body.pc = "writeDefault"
    /\ \E w \in WriteOutcomes :
         /\ file' = WriteFile(file, caller[body.by].def, w)
         /\ body' = [body EXCEPT !.pc = "decodeDefault", !.wrote = w]
    /\ UNCHANGED <<ld, once, caller, cfgLog, heap, currentConfig, watcher, loop, events,
                   errors, timer, timers, reload, handlerMutex, changeHandlers,
                   reg, cb, calls, rd, crashed, hist>>

\* json.Unmarshal(defaultConfigRaw, &cfg), panic on error (file absent or unreadable)
BodyDecodeDefault ==
    /\ ~crashed
    /\ body.pc = "decodeDefault"
    /\ LET u == Unmarshal(caller[body.by].def, heap[InitAddr]) IN
         /\ heap' = [heap EXCEPT ![InitAddr] = u.cfg]
         /\ IF u.err
            THEN \E rec \in BOOLEAN : BodyPanic(rec)
            ELSE /\ body' = [body EXCEPT !.pc = "store"]
                 /\ UNCHANGED <<once, caller, crashed>>
    /\ UNCHANGED <<ld, file, cfgLog, currentConfig, watcher, loop, events, errors,
                   timer, timers, reload, handlerMutex, changeHandlers, reg, cb,
                   calls, rd, hist>>

\* data, err := os.ReadFile(configFilePath); on error cfgLog.Errorf and the
\* decode of the default payload
BodyRead ==
    /\ ~crashed
    /\ body.pc = "read"
    /\ \E ok \in BOOLEAN :
         IF ok /\ file # Absent
         THEN body' = [body EXCEPT !.pc = "decodeFile", !.data = file]
         ELSE body' = [body EXCEPT !.pc = "decodeDefault", !.errs = @ + 1]
    /\ UNCHANGED <<ld, file, once, caller, cfgLog, heap, currentConfig, watcher, loop,
                   events, errors, timer, timers, reload, handlerMutex,
                   changeHandlers, reg, cb, calls, rd, crashed, hist>>

\* json.Unmarshal(data, &cfg): the file is decoded into the T declared by
\* `var cfg T`, which nothing has written yet
InitTargetPreloaded(cfg, def) == Unmarshal(def, cfg).cfg

InitTarget(cfg, def) == cfg

\* What the fallback branch leaves on disk: it does not write the file
FallbackRewrites(f, def) == def

FallbackFile(f, def) == f

\* Where the closure goes after a file that did not decode: on to the store,
\* whatever the decode of the default payload returned
InitAfterDecodeErrorAbort(defErr) == "panic"

InitAfterDecodeError(defErr) == "store"

\* json.Unmarshal(data, &cfg); on error: cfgLog.Errorf and
\* _ = json.Unmarshal(defaultConfigRaw, &cfg), into the same cfg, its error dropped
BodyDecodeFile ==
    /\ ~crashed
    /\ body.pc = "decodeFile"
    /\ LET def == caller[body.by].def
           u == Unmarshal(body.data, InitTarget(heap[InitAddr], def))
           d == Unmarshal(def, u.cfg) IN
         /\ heap' = [heap EXCEPT ![InitAddr] = IF u.err THEN d.cfg ELSE u.cfg]
         /\ file' = IF u.err THEN FallbackFile(file, def) ELSE file
         /\ IF u.err /\ InitAfterDecodeError(d.err) = "panic"
            THEN \E rec \in BOOLEAN : BodyPanic(rec)
            ELSE /\ body' = [body EXCEPT !.pc = "store",
                                         !.errs = IF u.err THEN @ + 1 ELSE @]
                 /\ UNCHANGED <<once, caller, crashed>>
    /\ UNCHANGED <<ld, cfgLog, currentConfig, watcher, loop, events, errors, timer,
                   timers, reload, handlerMutex, changeHandlers, reg, cb, calls,
                   rd, hist>>

\* var anyCfg any = &cfg; currentConfig.Store(&anyCfg)
BodyStore ==
    /\ ~crashed
    /\ body.pc = "store"
    /\ currentConfig' = InitAddr
    /\ hist' = [hist EXCEPT !.stores = Append(@, InitAddr),
                            !.published[InitAddr] = heap[InitAddr]]
    /\ body' = [body EXCEPT !.pc = "newWatcher"]
    /\ UNCHANGED <<ld, file, once, caller, cfgLog, heap, watcher, loop, events, errors,
                   timer, timers, reload, handlerMutex, changeHandlers, reg, cb,
                   calls, rd, crashed>>

\* watcher, err := fsnotify.NewWatcher(), panic on error
BodyNewWatcher ==
    /\ ~crashed
    /\ body.pc = "newWatcher"
    /\ \E ok \in BOOLEAN :
         IF ok
         THEN /\ watcher' = "created"
              /\ body' = [body EXCEPT !.pc = "add"]
              /\ UNCHANGED <<once, caller, crashed>>
         ELSE /\ UNCHANGED watcher
              /\ \E rec \in BOOLEAN : BodyPanic(rec)
    /\ UNCHANGED <<ld, file, cfgLog, heap, currentConfig, loop, events, errors, timer,
                   timers, reload, handlerMutex, changeHandlers, reg, cb, calls,
                   rd, hist>>

\* The watcher loop when watcher.Add has failed: `go watchConfig` comes after
\* the Add, so no loop has been started
LoopStartedBeforeAdd(l) == "running"

LoopOnAddFailure(l) == l

\* watcher.Add(configFilePath); on error watcher.Close() and panic.
\* Adding a path that does not exist always fails.
BodyAdd ==
    /\ ~crashed
    /\ body.pc = "add"
    /\ \E ok \in BOOLEAN :
         IF ok /\ file # Absent
         THEN /\ watcher' = "attached"
              /\ body' = [body EXCEPT !.pc = "spawn"]
              /\ UNCHANGED <<once, caller, crashed, loop>>
         ELSE /\ watcher' = "closed"
              /\ loop' = LoopOnAddFailure(loop)
              /\ \E rec \in BOOLEAN : BodyPanic(rec)
    /\ UNCHANGED <<ld, file, cfgLog, heap, currentConfig, events, errors, timer,
                   timers, reload, handlerMutex, changeHandlers, reg, cb, calls,
                   rd, hist>>

\* go watchConfig[T](watcher, configFilePath); f returns, the Once is done
BodySpawn ==
    /\ ~crashed
    /\ body.pc = "spawn"
    /\ loop' = "running"
    /\ once' = "done"
    /\ body' = [body EXCEPT !.pc = "done"]
    /\ caller' = [caller EXCEPT ![body.by].pc = "returned"]
    /\ UNCHANGED <<ld, file, cfgLog, heap, currentConfig, watcher, events, errors,
                   timer, timers, reload, handlerMutex, changeHandlers, reg, cb,
                   calls, rd, crashed, hist>>

----------------------------------------------------------------------------
(* Environment: the file system and fsnotify *)

\* Somebody writes the file; an attached watch reports a Write event.
FsWrite(p) ==
    /\ ~crashed
    /\ hist.writes < MaxWrites
    /\ file' = p
    /\ events' = IF watcher = "attached" THEN Append(events, "write") ELSE events
    /\ hist' = [hist EXCEPT !.writes = @ + 1]
    /\ UNCHANGED <<ld, once, caller, body, cfgLog, heap, currentConfig, watcher, loop,
                   errors, timer, timers, reload, handlerMutex, changeHandlers,
                   reg, cb, calls, rd, crashed>>

\* An event whose Op has no Write bit (chmod)
FsChmod ==
    /\ ~crashed
    /\ hist.noise < MaxNoise
    /\ watcher = "attached"
    /\ events' = Append(events, "chmod")
    /\ hist' = [hist EXCEPT !.noise = @ + 1]
    /\ UNCHANGED <<ld, file, once, caller, body, cfgLog, heap, currentConfig, watcher,
                   loop, errors, timer, timers, reload, handlerMutex,
                   changeHandlers, reg, cb, calls, rd, crashed>>

\* A transport error on watcher.Errors
FsError ==
    /\ ~crashed
    /\ hist.noise < MaxNoise
    /\ watcher = "attached"
    /\ errors' = errors + 1
    /\ hist' = [hist EXCEPT !.noise = @ + 1]
    /\ UNCHANGED <<ld, file, once, caller, body, cfgLog, heap, currentConfig, watcher,
                   loop, events, timer, timers, reload, handlerMutex,
                   changeHandlers, reg, cb, calls, rd, crashed>>

----------------------------------------------------------------------------
(* watchConfig: the watcher loop and the debounce timer *)

\* if timer != nil { timer.Stop() }: a timer that has not fired never will
NoStop(ts, t) == ts

StopTimer(ts, t) ==
    IF t # 0 /\ ts[t] = "pending" THEN [ts EXCEPT ![t] = "stopped"] ELSE ts

\* event.Op&fsnotify.Write == fsnotify.Write
IsWriteAny(e) == TRUE

IsWrite(e) == e = "write"

\* case event, ok := <-watcher.Events: an event without the Write bit is
\* skipped; a Write event stops the pending timer and arms a new one.
LoopEvent ==
    /\ ~crashed
    /\ loop = "running"
    /\ events # <<>>
    /\ events' = Tail(events)
    /\ IF IsWrite(Head(events))
       THEN /\ timers' = [StopTimer(timers, timer) EXCEPT ![timer + 1] = "pending"]
            /\ timer' = timer + 1
            /\ hist' = [hist EXCEPT !.bursts =
                          IF timer # 0 /\ timers[timer] = "pending" THEN @ ELSE @ + 1]
       ELSE UNCHANGED <<timers, timer, hist>>
    /\ UNCHANGED <<ld, file, once, caller, body, cfgLog, heap, currentConfig, watcher,
                   loop, errors, reload, handlerMutex, changeHandlers, reg, cb,
                   calls, rd, crashed>>

\* case err, ok := <-watcher.Errors: cfgLog.Errorf, the loop goes on
LoopError ==
    /\ ~crashed
    /\ loop = "running"
    /\ errors > 0
    /\ errors' = errors - 1
    /\ hist' = [hist EXCEPT !.errLogs = @ + 1]
    /\ UNCHANGED <<ld, file, once, caller, body, cfgLog, heap, currentConfig, watcher,
                   loop, events, timer, timers, reload, handlerMutex,
                   changeHandlers, reg, cb, calls, rd, crashed>>

\* The watcher is closed: fsnotify closes watcher.Events and watcher.Errors,
\* what had not been received is lost.
FsClose ==
    /\ ~crashed
    /\ watcher = "attached"
    /\ loop = "running"
    /\ watcher' = "closed"
    /\ events' = <<>>
    /\ errors' = 0
    /\ UNCHANGED <<ld, file, once, caller, body, cfgLog, heap, currentConfig, loop,
                   timer, timers, reload, handlerMutex, changeHandlers, reg, cb,
                   calls, rd, crashed, hist>>

\* case event, ok := <-watcher.Events: if !ok { return } (the same on
\* watcher.Errors): watchConfig returns, its timer is left as it is
LoopExit ==
    /\ ~crashed
    /\ loop = "running"
    /\ watcher = "closed"
    /\ loop' = "exited"
    /\ UNCHANGED <<ld, file, once, caller, body, cfgLog, heap, currentConfig, watcher,
                   events, errors, timer, timers, reload, handlerMutex,
                   changeHandlers, reg, cb, calls, rd, crashed, hist>>

\* The quiet period of timer t elapses: its function starts in its own goroutine.
TimerFire(t) ==
    /\ ~crashed
    /\ timers[t] = "pending"
    /\ timers' = [timers EXCEPT ![t] = "fired"]
    /\ reload' = [reload EXCEPT ![t].pc = "read"]
    /\ UNCHANGED <<ld, file, once, caller, body, cfgLog, heap, currentConfig, watcher,
                   loop, events, errors, timer, handlerMutex, changeHandlers, reg,
                   cb, calls, rd, crashed, hist>>

----------------------------------------------------------------------------
(* The reload closure passed to time.AfterFunc *)

\* data, err := os.ReadFile(configFilePath); if err != nil { return }:
\* a failed read returns without a log entry
ReloadRead(t) ==
    /\ ~crashed
    /\ reload[t].pc = "read"
    /\ \E ok \in BOOLEAN :
         IF ok /\ file # Absent
         THEN reload' = [reload EXCEPT ![t].pc = "decode", ![t].data = file]
         ELSE reload' = [reload EXCEPT ![t].pc = "done", ![t].failed = TRUE]
    /\ UNCHANGED <<ld, file, once, caller, body, cfgLog, heap, currentConfig, watcher,
                   loop, events, errors, timer, timers, handlerMutex,
                   changeHandlers, reg, cb, calls, rd, crashed, hist>>

\* var cfg T: every reload decodes into a T of its own
CfgAddrInPlace(t) == IF currentConfig = Nil THEN ReloadAddr(t) ELSE currentConfig

CfgAddrShared(t) == ReloadAddr(1)

CfgAddr(t) == ReloadAddr(t)

\* if err := json.Unmarshal(data, &cfg); err != nil { log; return }
AfterDecodeAlways(err) == "store"

AfterDecodeNotify(err) == IF err THEN "lock" ELSE "store"

AfterDecode(err) == IF err THEN "done" ELSE "store"

\* json.Unmarshal(data, &cfg) writes into the new T, which holds zero values
ReloadTargetMerged(cfg, cur) == IF cur = Nil THEN cfg ELSE heap[cur]

ReloadTarget(cfg, cur) == cfg

ReloadDecode(t) ==
    /\ ~crashed
    /\ reload[t].pc = "decode"
    /\ LET u == Unmarshal(reload[t].data, ReloadTarget(heap[CfgAddr(t)], currentConfig)) IN
         /\ heap' = [heap EXCEPT ![CfgAddr(t)] = u.cfg]
         /\ reload' = [reload EXCEPT ![t].pc = AfterDecode(u.err), ![t].failed = u.err,
                                      ![t].errs = IF u.err THEN @ + 1 ELSE @]
    /\ UNCHANGED <<ld, file, once, caller, body, cfgLog, currentConfig, watcher, loop,
                   events, errors, timer, timers, handlerMutex, changeHandlers,
                   reg, cb, calls, rd, crashed, hist>>

\* var anyCfg any = &cfg; currentConfig.Store(&anyCfg)
ReloadStore(t) ==
    /\ ~crashed
    /\ reload[t].pc = "store"
    /\ currentConfig' = CfgAddr(t)
    /\ hist' = [hist EXCEPT !.stores = Append(@, CfgAddr(t)),
                            !.published[CfgAddr(t)] = heap[CfgAddr(t)]]
    /\ reload' = [reload EXCEPT ![t].pc = "lock"]
    /\ UNCHANGED <<ld, file, once, caller, body, cfgLog, heap, watcher, loop, events,
                   errors, timer, timers, handlerMutex, changeHandlers, reg, cb,
                   calls, rd, crashed>>

\* handlerMutex.Lock()
ReloadLock(t) ==
    /\ ~crashed
    /\ reload[t].pc = "lock"
    /\ handlerMutex = Free
    /\ handlerMutex' = [k |-> "reload", id |-> t]
    /\ reload' = [reload EXCEPT ![t].pc = "fanout", ![t].idx = 1]
    /\ hist' = [hist EXCEPT !.seen[t] = {h \in Handlers : reg[h] = "done"},
                            !.rounds = Append(@, t)]
    /\ UNCHANGED <<ld, file, once, caller, body, cfgLog, heap, currentConfig, watcher,
                   loop, events, errors, timer, timers, changeHandlers, reg, cb,
                   calls, rd, crashed>>

\* go h(anyCfg): the loop does not wait for the handler it has just started
DispatchSync(t, i) == IF i = 1 THEN TRUE ELSE cb[t][changeHandlers[i - 1]] # "running"

Dispatch(t, i) == TRUE

\* for _, h := range changeHandlers: the handlers the range visits
RangeSkipFirst(hs) == SubSeq(hs, 2, Len(hs))

RangeOver(hs) == hs

\* go h(anyCfg): anyCfg is the &cfg this reload has stored
FanoutArgCurrent(t) == currentConfig

FanoutArg(t) == CfgAddr(t)

\* for _, h := range changeHandlers { go h(anyCfg) }; handlerMutex.Unlock(); log
ReloadFanout(t) ==
    /\ ~crashed
    /\ reload[t].pc = "fanout"
    /\ Dispatch(t, reload[t].idx)
    /\ LET hs == RangeOver(changeHandlers)
           i == reload[t].idx IN
       IF i <= Len(hs)
       THEN /\ cb' = [cb EXCEPT ![t][hs[i]] = "running"]
            /\ calls' = [calls EXCEPT ![t][hs[i]] = @ + 1]
            /\ reload' = [reload EXCEPT ![t].idx = i + 1]
            /\ hist' = [hist EXCEPT !.args[t][hs[i]] = FanoutArg(t)]
            /\ UNCHANGED handlerMutex
       ELSE /\ handlerMutex' = Free
            /\ reload' = [reload EXCEPT ![t].pc = "done", ![t].infos = @ + 1]
            /\ UNCHANGED <<cb, calls, hist>>
    /\ UNCHANGED <<ld, file, once, caller, body, cfgLog, heap, currentConfig, watcher,
                   loop, events, errors, timer, timers, changeHandlers, reg, rd,
                   crashed>>

----------------------------------------------------------------------------
(* Callback goroutines *)

\* h(raw.(*T)) returns
CallbackReturn(t, h) ==
    /\ ~crashed
    /\ cb[t][h] = "running"
    /\ cb' = [cb EXCEPT ![t][h] = "returned"]
    /\ UNCHANGED <<ld, file, once, caller, body, cfgLog, heap, currentConfig, watcher,
                   loop, events, errors, timer, timers, reload, handlerMutex,
                   changeHandlers, reg, calls, rd, crashed, hist>>

\* A panic that leaves the goroutine started by `go h(anyCfg)`: nothing
\* recovers it, the runtime ends the process.
PanicKillsProcess == TRUE

CallbackPanic(t, h) ==
    /\ ~crashed
    /\ cb[t][h] = "running"
    /\ cb' = [cb EXCEPT ![t][h] = "panicked"]
    /\ crashed' = PanicKillsProcess
    /\ UNCHANGED <<ld, file, once, caller, body, cfgLog, heap, currentConfig, watcher,
                   loop, events, errors, timer, timers, reload, handlerMutex,
                   changeHandlers, reg, calls, rd, hist>>

----------------------------------------------------------------------------
(* OnConfigChange *)

\* handlerMutex.Lock(); defer handlerMutex.Unlock()
RegLock(h) ==
    /\ ~crashed
    /\ reg[h] = "idle"
    /\ handlerMutex = Free
    /\ handlerMutex' = [k |-> "reg", id |-> h]
    /\ reg' = [reg EXCEPT ![h] = "locked"]
    /\ UNCHANGED <<ld, file, once, caller, body, cfgLog, heap, currentConfig, watcher,
                   loop, events, errors, timer, timers, reload, changeHandlers,
                   cb, calls, rd, crashed, hist>>

\* append(changeHandlers, func(raw any) { h(raw.(*T)) })
AppendReplaces(hs, h) == <<h>>

AppendHandler(hs, h) == Append(hs, h)

\* changeHandlers = append(changeHandlers, ...); the deferred Unlock; return
RegAppend(h) ==
    /\ ~crashed
    /\ reg[h] = "locked"
    /\ changeHandlers' = AppendHandler(changeHandlers, h)
    /\ handlerMutex' = Free
    /\ reg' = [reg EXCEPT ![h] = "done"]
    /\ UNCHANGED <<ld, file, once, caller, body, cfgLog, heap, currentConfig, watcher,
                   loop, events, errors, timer, timers, reload, cb, calls, rd,
                   crashed, hist>>

----------------------------------------------------------------------------
(* GetCfg *)

\* p := currentConfig.Load()
LoadStale(cur) == IF hist.stores # <<>> THEN hist.stores[1] ELSE cur

Load(cur) == cur

\* if p == nil { return new(T) }; return (*p).(*T)
GetCfgNoNilCheck(p) ==
    IF p = Nil THEN [kind |-> "nil", addr |-> Nil] ELSE [kind |-> "snap", addr |-> p]

GetCfgResult(p) ==
    IF p = Nil THEN [kind |-> "fresh", addr |-> Nil] ELSE [kind |-> "snap", addr |-> p]

\* A caller enters GetCfg.
GetCfgCall(r) ==
    /\ ~crashed
    /\ rd[r].pc = "idle"
    /\ rd' = [rd EXCEPT ![r] = [pc |-> "called", typ |-> InitType,
                                floor |-> Len(hist.stores), at |-> 0,
                                kind |-> "none", addr |-> Nil]]
    /\ UNCHANGED <<ld, file, once, caller, body, cfgLog, heap, currentConfig, watcher,
                   loop, events, errors, timer, timers, reload, handlerMutex,
                   changeHandlers, reg, cb, calls, crashed, hist>>

\* A caller enters GetCfg[U], U a type other than the one Init was called with.
GetCfgCallOther(r) ==
    /\ ~crashed
    /\ rd[r].pc = "idle"
    /\ rd' = [rd EXCEPT ![r] = [pc |-> "called", typ |-> OtherType,
                                floor |-> Len(hist.stores), at |-> 0,
                                kind |-> "none", addr |-> Nil]]
    /\ UNCHANGED <<ld, file, once, caller, body, cfgLog, heap, currentConfig, watcher,
                   loop, events, errors, timer, timers, reload, handlerMutex,
                   changeHandlers, reg, cb, calls, crashed, hist>>

\* (*p).(*T): every stored value is a pointer to the type Init and its
\* watcher were instantiated with; the assertion holds for that type only,
\* and it is the one-result form, which panics when it does not hold.
TypeAssertion(ty) == ty = InitType

\* GetCfg takes no lock: it runs whoever holds handlerMutex
TakesHandlerMutex(m) == m = Free

NoLock(m) == TRUE

\* The body of GetCfg: one atomic load, no lock; with nothing stored a new T
\* is returned, otherwise the stored value is asserted to be a *T, and a
\* failed assertion panics in the calling goroutine.
GetCfg(r) ==
    /\ ~crashed
    /\ rd[r].pc = "called"
    /\ NoLock(handlerMutex)
    /\ LET res == GetCfgResult(Load(currentConfig)) IN
         IF res.kind = "snap" /\ ~TypeAssertion(rd[r].typ)
         THEN /\ rd' = [rd EXCEPT ![r].pc = "panicked", ![r].at = Len(hist.stores)]
              /\ \E recovered \in BOOLEAN : crashed' = ~recovered
         ELSE /\ rd' = [rd EXCEPT ![r].pc = "done", ![r].kind = res.kind,
                                  ![r].addr = res.addr, ![r].at = Len(hist.stores)]
              /\ crashed' = crashed
    /\ UNCHANGED <<ld, file, once, caller, body, cfgLog, heap, currentConfig, watcher,
                   loop, events, errors, timer, timers, reload, handlerMutex,
                   changeHandlers, reg, cb, calls, hist>>

----------------------------------------------------------------------------
(* LoadConfig / loadConfig (src/unnamed/part_005) *)

\* The paths LoadConfig is called with: the path of the file the model
\* follows, or a path where there is no file.
ConfigPath == "config"
Paths == {ConfigPath, "elsewhere"}
FileAt(path) == IF path = ConfigPath THEN file ELSE Absent

\* common.DefaultLog, the logger LoadConfig installs when none is set
DefaultLog == MaxCallers + 1

\* A goroutine calls LoadConfig[T](configPath).
LoadCall(l, path) ==
    /\ ~crashed
    /\ ld[l].pc = "idle"
    /\ ld' = [ld EXCEPT ![l].pc = "stat", ![l].path = path]
    /\ UNCHANGED <<file, once, caller, body, cfgLog, heap, currentConfig,
                   watcher, loop, events, errors, timer, timers, reload,
                   handlerMutex, changeHandlers, reg, cb, calls, rd, crashed,
                   hist>>

\* os.IsNotExist(err) on the error of os.Stat(configPath)
IsNotExistNever(f) == FALSE

IsNotExist(f) == f = Absent

\* if _, err := os.Stat(configPath); os.IsNotExist(err) { return ErrConfigNotFound }
LoadStat(l) ==
    /\ ~crashed
    /\ ld[l].pc = "stat"
    /\ ld' = IF IsNotExist(FileAt(ld[l].path))
             THEN [ld EXCEPT ![l].pc = "returned", ![l].res = "notfound",
                             ![l].stat = FileAt(ld[l].path)]
             ELSE [ld EXCEPT ![l].pc = "read", ![l].stat = FileAt(ld[l].path)]
    /\ UNCHANGED <<file, once, caller, body, cfgLog, heap, currentConfig,
                   watcher, loop, events, errors, timer, timers, reload,
                   handlerMutex, changeHandlers, reg, cb, calls, rd, crashed,
                   hist>>

\* data, err := os.ReadFile(configPath); on error return it
LoadRead(l) ==
    /\ ~crashed
    /\ ld[l].pc = "read"
    /\ \E ok \in BOOLEAN :
         IF ok /\ FileAt(ld[l].path) # Absent
         THEN ld' = [ld EXCEPT ![l].pc = "decode", ![l].data = FileAt(ld[l].path)]
         ELSE ld' = [ld EXCEPT ![l].pc = "returned", ![l].res = "readerr"]
    /\ UNCHANGED <<file, once, caller, body, cfgLog, heap, currentConfig,
                   watcher, loop, events, errors, timer, timers, reload,
                   handlerMutex, changeHandlers, reg, cb, calls, rd, crashed,
                   hist>>

\* var cfg T; toml.Unmarshal(data, &cfg); on error return ErrConfigInvalid
LoadDecode(l) ==
    /\ ~crashed
    /\ ld[l].pc = "decode"
    /\ LET u == Unmarshal(ld[l].data, heap[LoadAddr(l)]) IN
         /\ heap' = [heap EXCEPT ![LoadAddr(l)] = u.cfg]
         /\ ld' = IF u.err
                  THEN [ld EXCEPT ![l].pc = "returned", ![l].res = "invalid"]
                  ELSE [ld EXCEPT ![l].pc = "store"]
    /\ UNCHANGED <<file, once, caller, body, cfgLog, currentConfig, watcher,
                   loop, events, errors, timer, timers, reload, handlerMutex,
                   changeHandlers, reg, cb, calls, rd, crashed, hist>>

\* var anyCfg any = &cfg; currentConfig.Store(&anyCfg)
LoadStore(l) ==
    /\ ~crashed
    /\ ld[l].pc = "store"
    /\ currentConfig' = LoadAddr(l)
    /\ hist' = [hist EXCEPT !.stores = Append(@, LoadAddr(l)),
                            !.published[LoadAddr(l)] = heap[LoadAddr(l)]]
    /\ ld' = [ld EXCEPT ![l].pc = "newWatcher"]
    /\ UNCHANGED <<file, once, caller, body, cfgLog, heap, watcher, loop,
                   events, errors, timer, timers, reload, handlerMutex,
                   changeHandlers, reg, cb, calls, rd, crashed>>

\* watcher, err := fsnotify.NewWatcher(); on error return it
LoadNewWatcher(l) ==
    /\ ~crashed
    /\ ld[l].pc = "newWatcher"
    /\ \E ok \in BOOLEAN :
         IF ok
         THEN ld' = [ld EXCEPT ![l].pc = "add", ![l].watcher = "created"]
         ELSE ld' = [ld EXCEPT ![l].pc = "returned", ![l].res = "watcherr"]
    /\ UNCHANGED <<file, once, caller, body, cfgLog, heap, currentConfig,
                   watcher, loop, events, errors, timer, timers, reload,
                   handlerMutex, changeHandlers, reg, cb, calls, rd, crashed,
                   hist>>

\* watcher.Add(configPath); on error watcher.Close() and return it
LoadAdd(l) ==
    /\ ~crashed
    /\ ld[l].pc = "add"
    /\ \E ok \in BOOLEAN :
         IF ok /\ FileAt(ld[l].path) # Absent
         THEN ld' = [ld EXCEPT ![l].pc = "once", ![l].watcher = "attached"]
         ELSE ld' = [ld EXCEPT ![l].pc = "returned", ![l].res = "adderr",
                               ![l].watcher = "closed"]
    /\ UNCHANGED <<file, once, caller, body, cfgLog, heap, currentConfig,
                   watcher, loop, events, errors, timer, timers, reload,
                   handlerMutex, changeHandlers, reg, cb, calls, rd, crashed,
                   hist>>

\* initOnce.Do(func() { if cfgLog == nil { cfgLog = &common.DefaultLog{} } }):
\* the call waits while another closure of the Once is running
LoadOnce(l) ==
    /\ ~crashed
    /\ ld[l].pc = "once"
    /\ OnceDo(once) # "wait"
    /\ IF OnceDo(once) = "run"
       THEN /\ once' = "done"
            /\ cfgLog' = IF cfgLog = 0 THEN DefaultLog ELSE cfgLog
       ELSE UNCHANGED <<once, cfgLog>>
    /\ ld' = [ld EXCEPT ![l].pc = "spawn"]
    /\ UNCHANGED <<file, caller, body, heap, currentConfig, watcher, loop,
                   events, errors, timer, timers, reload, handlerMutex,
                   changeHandlers, reg, cb, calls, rd, crashed, hist>>

\* go watchConfig[T](watcher, configPath); return nil
LoadSpawn(l) ==
    /\ ~crashed
    /\ ld[l].pc = "spawn"
    /\ ld' = [ld EXCEPT ![l].pc = "returned", ![l].res = "ok", ![l].loop = TRUE]
    /\ UNCHANGED <<file, once, caller, body, cfgLog, heap, currentConfig,
                   watcher, loop, events, errors, timer, timers, reload,
                   handlerMutex, changeHandlers, reg, cb, calls, rd, crashed,
                   hist>>

----------------------------------------------------------------------------

\* The closure of initOnce.Do, statement by statement
InitBody ==
    \/ BodyStart
    \/ BodyStat
    \/ BodyWriteDefault
    \/ BodyDecodeDefault
    \/ BodyRead
    \/ BodyDecodeFile
    \/ BodyStore
    \/ BodyNewWatcher
    \/ BodyAdd
    \/ BodySpawn

\* The watcher loop, the debounce timers and the reload closures they start
Watch ==
    \/ LoopEvent
    \/ \E t \in Timers : TimerFire(t)
    \/ \E t \in Timers : ReloadRead(t)
    \/ \E t \in Timers : ReloadDecode(t)
    \/ \E t \in Timers : ReloadStore(t)
    \/ \E t \in Timers : ReloadLock(t)
    \/ \E t \in Timers : ReloadFanout(t)

\* One goroutine calls Init; subscribers register; the file is written and
\* reloaded; every reload fans out to callbacks that are slow to return.
Next ==
    \/ \E d \in Defaults : CallInit(1, d)
    \/ InitBody
    \/ \E p \in FileContents : FsWrite(p)
    \/ Watch
    \/ \E h \in Handlers : RegLock(h)
    \/ \E h \in Handlers : RegAppend(h)

Spec == Init /\ [][Next]_vars

\* As Spec, with callbacks that return or panic.
NextCallbacks ==
    \/ Next
    \/ \E t \in Timers, h \in Handlers : CallbackReturn(t, h)
    \/ \E t \in Timers, h \in Handlers : CallbackPanic(t, h)

SpecCallbacks == Init /\ [][NextCallbacks]_vars

\* The watcher's inputs in full: Write events, events of other kinds and
\* transport errors.
NextWatch ==
    \/ \E d \in Defaults : CallInit(1, d)
    \/ InitBody
    \/ \E p \in FileContents : FsWrite(p)
    \/ FsChmod
    \/ FsError
    \/ LoopError
    \/ Watch

SpecWatch == Init /\ [][NextWatch]_vars

\* Several goroutines call Init concurrently while the file is written and reloaded.
NextInit ==
    \/ \E c \in Callers, d \in Defaults : CallInit(c, d)
    \/ \E c \in Callers : InitWaitReturn(c)
    \/ InitBody
    \/ \E p \in FileContents : FsWrite(p)
    \/ Watch

SpecInit == Init /\ [][NextInit]_vars

\* Goroutines call GetCfg at any moment of Init and of the reloads.
NextGet ==
    \/ \E d \in Defaults : CallInit(1, d)
    \/ InitBody
    \/ \E p \in FileContents : FsWrite(p)
    \/ Watch
    \/ \E r \in Readers : GetCfgCall(r)
    \/ \E r \in Readers : GetCfg(r)

SpecGet == Init /\ [][NextGet]_vars

\* LoadConfig, statement by statement
LoadSteps ==
    \/ \E l \in Loaders, path \in Paths : LoadCall(l, path)
    \/ \E l \in Loaders : LoadStat(l)
    \/ \E l \in Loaders : LoadRead(l)
    \/ \E l \in Loaders : LoadDecode(l)
    \/ \E l \in Loaders : LoadStore(l)
    \/ \E l \in Loaders : LoadNewWatcher(l)
    \/ \E l \in Loaders : LoadAdd(l)
    \/ \E l \in Loaders : LoadOnce(l)
    \/ \E l \in Loaders : LoadSpawn(l)

\* Goroutines call LoadConfig before, during and after Init.
NextLoad ==
    \/ \E d \in Defaults : CallInit(1, d)
    \/ InitBody
    \/ LoadSteps

SpecLoad == Init /\ [][NextLoad]_vars

\* The watcher is closed while the manager runs: the loop returns.
NextShutdown ==
    \/ \E d \in Defaults : CallInit(1, d)
    \/ InitBody
    \/ \E p \in FileContents : FsWrite(p)
    \/ Watch
    \/ FsClose
    \/ LoopExit

SpecShutdown == Init /\ [][NextShutdown]_vars

\* The file is rewritten with contents that decode.
Rewrites == {"A", "B"}

NextRewrite ==
    \/ \E d \in Defaults : CallInit(1, d)
    \/ InitBody
    \/ \E p \in Rewrites : FsWrite(p)
    \/ Watch

SpecRewrite == Init /\ [][NextRewrite]_vars

\* One subscriber registers and one goroutine calls GetCfg while the file is
\* rewritten and reloaded.
NextSubscribe ==
    \/ NextRewrite
    \/ RegLock(1)
    \/ RegAppend(1)
    \/ GetCfgCall(1)
    \/ GetCfg(1)

SpecSubscribe == Init /\ [][NextSubscribe]_vars

\* The file contents a subscriber's reloads meet: one decodes, one does not.
Edits == {"B", "T"}

\* One subscriber registers, before, during or after an Init with a default
\* that decodes, while the watcher receives writes, events of other kinds and
\* transport errors.
NextNotify ==
    \/ CallInit(1, "A")
    \/ InitBody
    \/ \E p \in Edits : FsWrite(p)
    \/ Watch
    \/ FsChmod
    \/ FsError
    \/ LoopError
    \/ RegLock(1)
    \/ RegAppend(1)

SpecNotify == Init /\ [][NextNotify]_vars

\* Goroutines call GetCfg with the type Init was called with or with another
\* type, before, during and after Init.
NextTypes ==
    \/ \E d \in Defaults : CallInit(1, d)
    \/ InitBody
    \/ \E r \in Readers : GetCfgCall(r)
    \/ \E r \in Readers : GetCfgCallOther(r)
    \/ \E r \in Readers : GetCfg(r)

SpecTypes == Init /\ [][NextTypes]_vars

----------------------------------------------------------------------------
(* Properties *)

Range(q) == {q[i] : i \in 1..Len(q)}
Pos(q, a) == CHOOSE i \in 1..Len(q) : q[i] = a
Last(q) == IF q = <<>> THEN Nil ELSE q[Len(q)]

\* C1 (last known good): a reload execution whose read or decode failed has
\* ended without storing its T and without starting any callback; the store
\* still holds the last snapshot that was published, with the content it was
\* published with.
C1_LastKnownGood ==
    /\ \A t \in Timers :
         reload[t].failed =>
           /\ reload[t].pc = "done"
           /\ ReloadAddr(t) \notin Range(hist.stores)
           /\ currentConfig # ReloadAddr(t)
           /\ \A h \in Handlers : calls[t][h] = 0 /\ cb[t][h] = "none"
    /\ currentConfig = Last(hist.stores)
    /\ currentConfig # Nil => heap[currentConfig] = hist.published[currentConfig]

\* One reload failed at the read, another at the decode of a half-decodable
\* file, and Init's snapshot is still the current one.
C1_Witness ==
    /\ \E t \in Timers : reload[t].failed /\ reload[t].data = Absent
    /\ \E t \in Timers : reload[t].failed /\ reload[t].data = "T"
    /\ currentConfig = InitAddr
    /\ body.pc = "done"

\* C2 (Init runs at most once): the closure of initOnce.Do starts at most
\* once, and a call made once it has ended returns and changes neither the
\* snapshot, the logger, the watcher nor the watcher loop.
C2_LaterCall ==
    \A c \in Callers :
      (once = "done" /\ caller[c].pc \in {"idle", "waiting"} /\ caller'[c].pc # caller[c].pc)
        => /\ caller'[c].pc = "returned"
           /\ UNCHANGED <<once, body, cfgLog, heap, currentConfig, watcher, loop, file>>

C2_InitOnce == [](hist.bodyRuns <= 1) /\ [][C2_LaterCall]_vars

\* Both callers have returned from Init and the closure ran once.
C2_Witness ==
    /\ \A c \in Callers : caller[c].pc = "returned"
    /\ hist.bodyRuns = 1
    /\ body.pc = "done"
    /\ currentConfig # Nil

\* C3 as claimed: whenever an Init call has returned, the closure has finished
\* successfully: store seeded, watch attached, watcher loop started.
C3_ReturnedImpliesReady ==
    \A c \in Callers :
      caller[c].pc = "returned" =>
        /\ body.pc = "done"
        /\ currentConfig # Nil
        /\ watcher = "attached"
        /\ loop = "running"

\* C3 as amended: whenever an Init call has returned, the closure is no longer
\* in progress; unless it ended in a panic, the store is seeded, the watch is
\* attached and the watcher loop has been started.
C3_ReturnedImpliesFinished ==
    \A c \in Callers :
      caller[c].pc = "returned" =>
        /\ once = "done"
        /\ body.pc \in {"done", "panicked"}
        /\ body.pc = "done" =>
             /\ currentConfig # Nil
             /\ watcher = "attached"
             /\ loop = "running"

\* A caller other than the one that ran the closure has returned, after the
\* closure succeeded.
C3_Witness ==
    \E c \in Callers :
      /\ caller[c].pc = "returned"
      /\ body.by # c
      /\ body.pc = "done"
      /\ hist.stores = <<InitAddr>>

\* C4 (GetCfg never returns nil): every GetCfg call returns a pointer that is
\* not nil, the address of a stored snapshot or a new zero-valued T; while
\* nothing has been stored it returns the new T, and a call that began after
\* a store does not.
C4_NeverNil ==
    \A r \in Readers :
      rd[r].pc = "done" =>
        /\ rd[r].kind \in {"fresh", "snap"}
        /\ rd[r].kind = "snap" => rd[r].addr \in Addrs
        /\ rd[r].kind = "fresh" => rd[r].floor = 0
        /\ hist.stores = <<>> => rd[r].kind = "fresh"

\* GetCfg has returned a new zero-valued T while Init was still running.
C4_Witness ==
    \E r \in Readers :
      /\ rd[r].pc = "done"
      /\ rd[r].kind = "fresh"
      /\ once = "running"

\* C5 (atomic swap): a pointer returned by GetCfg is a new zero-valued T or
\* the address of a snapshot that Init or a successful reload stored; that
\* snapshot still has the content it was stored with, a reload's snapshot is
\* the decode of the bytes that reload read, and no T that is still being
\* decoded is the current snapshot or in a reader's hands.
C5_AtomicSwap ==
    /\ \A r \in Readers :
         (rd[r].pc = "done" /\ rd[r].kind # "fresh") =>
           /\ rd[r].kind = "snap"
           /\ rd[r].addr \in Range(hist.stores)
           /\ heap[rd[r].addr] = hist.published[rd[r].addr]
    /\ \A t \in Timers :
         /\ reload[t].pc = "decode" =>
              /\ currentConfig # CfgAddr(t)
              /\ \A r \in Readers : rd[r].addr # CfgAddr(t)
         /\ ReloadAddr(t) \in Range(hist.stores) =>
              /\ ~Unmarshal(reload[t].data, ZeroT).err
              /\ hist.published[ReloadAddr(t)] = Unmarshal(reload[t].data, ZeroT).cfg
    /\ body.pc \in {"start", "stat", "writeDefault", "decodeDefault", "read",
                    "decodeFile", "store"} =>
         /\ currentConfig # InitAddr
         /\ \A r \in Readers : rd[r].addr # InitAddr

\* A reader still holds Init's snapshot after two reloads have replaced it,
\* the second of them decoding a file that differs from it.
C5_Witness ==
    \E r \in Readers :
      /\ rd[r].pc = "done"
      /\ rd[r].addr = InitAddr
      /\ Len(hist.stores) = 3
      /\ heap[currentConfig] # heap[InitAddr]

\* C6 (real-time visibility): a GetCfg call that began after a store had
\* completed returns that snapshot or one stored after it.
C6_Visibility ==
    \A r \in Readers :
      (rd[r].pc = "done" /\ rd[r].floor > 0) =>
        /\ rd[r].kind = "snap"
        /\ rd[r].addr \in Range(hist.stores)
        /\ Pos(hist.stores, rd[r].addr) >= rd[r].floor

\* A call that began after Init's store returned the snapshot of a reload
\* that stored while the call was running.
C6_Witness ==
    \E r \in Readers :
      /\ rd[r].pc = "done"
      /\ rd[r].floor = 1
      /\ Len(hist.stores) >= 2
      /\ rd[r].addr = hist.stores[2]

Pending == {t \in Timers : timers[t] = "pending"}
Fired == {t \in Timers : timers[t] = "fired"}
Stopped == {t \in Timers : timers[t] = "stopped"}

\* C7 (debounce collapse): at most one timer is pending; a Write event handled
\* while a timer is pending stops it for good, so every burst of such events
\* has exactly one timer that is pending or has fired; only a fired timer has
\* a reload execution, so a burst has at most one reload and one fan-out round.
C7_DebounceCollapse ==
    /\ Cardinality(Pending) <= 1
    /\ Pending \subseteq {timer}
    /\ Cardinality(Pending) + Cardinality(Fired) = hist.bursts
    /\ Cardinality(Stopped) = timer - hist.bursts
    /\ \A t \in Timers : reload[t].pc # "none" <=> t \in Fired
    /\ Cardinality({t \in Timers : reload[t].pc \in {"fanout", "done"}}) <= hist.bursts

\* Two Write events and an event of another kind handled within one quiet
\* period: the first timer was stopped, the second fired, and its reload
\* published and ran the one fan-out round.
C7_Witness ==
    /\ timers[1] = "stopped"
    /\ timers[2] = "fired"
    /\ hist.bursts = 1
    /\ hist.noise > 0
    /\ events = <<>>
    /\ reload[1].pc = "none"
    /\ reload[2].pc = "done"
    /\ currentConfig = ReloadAddr(2)

\* C8 (callback delivery): when a successful reload has ended its fan-out,
\* every handler whose OnConfigChange had returned when the reload took
\* handlerMutex has been invoked exactly once for it; no handler is invoked
\* more than once for one reload, nor for a reload that took the lock before
\* the handler was appended.
C8_Delivery ==
    \A t \in Timers :
      /\ (reload[t].pc = "done" /\ ~reload[t].failed) =>
           \A h \in hist.seen[t] : calls[t][h] = 1
      /\ \A h \in Handlers :
           /\ calls[t][h] <= 1
           /\ calls[t][h] = 1 => h \in hist.seen[t]
           /\ reg[h] = "done" =>
                Cardinality({i \in 1..Len(changeHandlers) : changeHandlers[i] = h}) = 1

\* Handler 2 registered after reload 1 had fanned out to handler 1 alone;
\* reload 2 then invoked both.
C8_Witness ==
    /\ reload[1].pc = "done" /\ reload[2].pc = "done"
    /\ hist.seen[1] = {1}
    /\ calls[1][1] = 1 /\ calls[1][2] = 0
    /\ hist.seen[2] = {1, 2}
    /\ calls[2][1] = 1 /\ calls[2][2] = 1

\* C9 (slow-callback isolation): while a callback goroutine has not returned,
\* every step of the watcher is still enabled: the fan-out goes on to the next
\* handler and to the unlock, a reload reads, decodes and stores, takes the
\* lock when it is free (its holder is never waiting for a callback), the loop
\* handles the next event and a pending timer fires.
C9_SlowCallback ==
    (~crashed /\ \E u \in Timers, h \in Handlers : cb[u][h] = "running") =>
      /\ \A t \in Timers :
           /\ reload[t].pc = "fanout" => ENABLED ReloadFanout(t)
           /\ reload[t].pc = "read" => ENABLED ReloadRead(t)
           /\ reload[t].pc = "decode" => ENABLED ReloadDecode(t)
           /\ reload[t].pc = "store" => ENABLED ReloadStore(t)
           /\ (reload[t].pc = "lock" /\ handlerMutex = Free) => ENABLED ReloadLock(t)
           /\ timers[t] = "pending" => ENABLED TimerFire(t)
      /\ handlerMutex.k = "reload" => reload[handlerMutex.id].pc = "fanout"
      /\ handlerMutex.k = "reg" => ENABLED RegAppend(handlerMutex.id)
      /\ (loop = "running" /\ events # <<>>) => ENABLED LoopEvent

\* Handler 1 never returned from the first reload; that reload still invoked
\* handler 2 and ended, and a second reload published its snapshot and
\* invoked both handlers.
C9_Witness ==
    /\ cb[1][1] = "running"
    /\ calls[1][2] = 1
    /\ reload[1].pc = "done"
    /\ reload[2].pc = "done"
    /\ currentConfig = ReloadAddr(2)
    /\ calls[2][1] = 1 /\ calls[2][2] = 1

\* C10 (failing-callback isolation) as claimed: after a callback has panicked
\* the process is alive and the watcher loop is running.
C10_FailingCallback ==
    \A t \in Timers, h \in Handlers :
      cb[t][h] = "panicked" => (~crashed /\ loop = "running")

\* The default payload of the Init call that ran the closure, and whether a
\* byte string decodes into a new T
Def == caller[body.by].def
Decodes(p) == ~Unmarshal(p, ZeroT).err
Decode(p) == Unmarshal(p, ZeroT).cfg
InitSeeded == InitAddr \in Range(hist.stores)

\* C11 (default materialisation) as claimed: Init found no file, the default
\* payload decodes and nobody else wrote the file; when Init has returned the
\* file holds the default payload and GetCfg returns the decode of the
\* default payload.
C11_DefaultMaterialised ==
    (body.pc = "done" /\ body.stat = "absent" /\ hist.writes = 0 /\ Decodes(Def)) =>
      /\ file = Def
      /\ GetCfgResult(Load(currentConfig)).addr = InitAddr
      /\ heap[InitAddr] = Decode(Def)

\* C12 (seed from the file): when Init read the file and its content decodes,
\* the snapshot Init stored is the decode of that content into a new T; a
\* key the file does not have keeps T's zero value whatever the default
\* payload holds.
C12_SeedFromFile ==
    (InitSeeded /\ body.data # Absent /\ Decodes(body.data)) =>
      /\ hist.published[InitAddr] = Decode(body.data)
      /\ \A f \in Fields :
           Payload(body.data).set[f] = 0 => hist.published[InitAddr][f] = ZeroT[f]

\* Init has ended after reading a file without a name key while the default
\* payload has one: the seeded name is the zero value.
C12_Witness ==
    /\ body.pc = "done"
    /\ body.data = "B"
    /\ Def = "A"
    /\ Decode(Def).name # ZeroT.name
    /\ hist.published[InitAddr].name = ZeroT.name
    /\ currentConfig = InitAddr

\* C13 (fallback to the default) as claimed: when Init read a file that does
\* not decode and the default payload decodes, the snapshot Init stored is the
\* decode of the default payload into a new T.
C13_FallbackIsDefault ==
    (InitSeeded /\ body.data # Absent /\ ~Decodes(body.data) /\ Decodes(Def)) =>
      hist.published[InitAddr] = Decode(Def)

\* C14 (the file is written in one place): a step that changes the content
\* of the file is a write from outside the manager or the WriteFile of an
\* Init whose Stat found no file; no other step of Init and no step of a
\* reload, of a callback or of a registration changes it.
C14_Step ==
    file' # file =>
      \/ hist'.writes = hist.writes + 1
      \/ /\ body.pc = "writeDefault"
         /\ body.stat = "absent"
         /\ body'.pc = "decodeDefault"

C14_WriteOnlyWhenAbsent == [][C14_Step]_vars

\* Init found a file that does not decode and fell back to the default
\* payload, a reload then failed and another succeeded, and the file holds
\* what the last outside write put there.
C14_Witness ==
    /\ body.pc = "done"
    /\ body.stat = "exists"
    /\ body.data = "T"
    /\ hist.writes = MaxWrites
    /\ \E t \in Timers : reload[t].pc = "done" /\ reload[t].failed
    /\ \E t \in Timers : reload[t].pc = "done" /\ ~reload[t].failed
                           /\ file = reload[t].data

\* C15 (a default that does not decode is fatal) as claimed: when Init has
\* completed normally, the snapshot it stored came from a successful decode,
\* of the file it read or of the default payload.
C15_DefaultDecodeFatal ==
    body.pc = "done" =>
      \/ body.data # Absent /\ Decodes(body.data)
      \/ Decodes(Def)

\* C16 (a failed write of the default is fatal) as claimed: when Init found no
\* file, its WriteFile failed and nobody else wrote the file, Init does not
\* reach Ready.
C16_WriteFailureAborts ==
    (body.stat = "absent" /\ body.wrote \in {"nofile", "partial"} /\ hist.writes = 0) =>
      ~(body.pc = "done" /\ loop = "running")

\* C17 (no partially initialised manager) as claimed: after Init has ended
\* in a panic that its caller recovered, GetCfg returns a new zero-valued T
\* and no watcher loop is running.
C17_NoPartialInit ==
    (body.pc = "panicked" /\ ~crashed) =>
      /\ GetCfgResult(Load(currentConfig)).kind = "fresh"
      /\ loop = "none"

\* C18 (registration is append-only): every handler whose OnConfigChange has
\* returned is in changeHandlers exactly once, changeHandlers holds nothing
\* else, and every step leaves the list as it was or appends to it, whatever
\* the interleaving of registrations and fan-outs.
C18_Registered ==
    /\ \A h \in Handlers :
         Cardinality({i \in 1..Len(changeHandlers) : changeHandlers[i] = h})
           = IF reg[h] = "done" THEN 1 ELSE 0
    /\ Range(changeHandlers) \subseteq Handlers

C18_Step ==
    /\ Len(changeHandlers') >= Len(changeHandlers)
    /\ SubSeq(changeHandlers', 1, Len(changeHandlers)) = changeHandlers

C18_AppendOnly == [](C18_Registered) /\ [][C18_Step]_vars

\* Handler 2 registered first; a reload fanned out to it alone; handler 1
\* registered afterwards and a second reload fanned out to both.
C18_Witness ==
    /\ changeHandlers = <<2, 1>>
    /\ reload[1].pc = "done" /\ hist.seen[1] = {2}
    /\ reload[2].pc = "done" /\ hist.seen[2] = {1, 2}

\* C19 (a failed reload is logged) as claimed: a reload execution that failed
\* at the read or at the decode has written one error entry to cfgLog and no
\* entry saying that the configuration was updated.
C19_FailedReloadLogged ==
    \A t \in Timers :
      (reload[t].pc = "done" /\ reload[t].failed) =>
        /\ reload[t].errs = 1
        /\ reload[t].infos = 0

\* C20 (LoadConfig on a missing file): a LoadConfig call whose Stat finds no
\* file returns ErrConfigNotFound from that very step, which changes neither
\* the file, the snapshot, the Once, the logger nor any watcher or loop; the
\* call has read nothing, stored nothing, created no watcher and started no
\* watcher loop.
C20_NotFound ==
    \A l \in Loaders :
      (ld[l].pc # "stat" /\ ld[l].stat = Absent /\ ld[l].path # "none") =>
        /\ ld[l].pc = "returned"
        /\ ld[l].res = "notfound"
        /\ ld[l].data = Absent
        /\ ld[l].watcher = "none"
        /\ ~ld[l].loop
        /\ LoadAddr(l) \notin Range(hist.stores)
        /\ currentConfig # LoadAddr(l)

C20_Step ==
    \A l \in Loaders :
      (ld[l].pc = "stat" /\ ld'[l].pc # "stat" /\ FileAt(ld[l].path) = Absent) =>
        /\ ld'[l].res = "notfound"
        /\ UNCHANGED <<file, heap, currentConfig, once, cfgLog, watcher, loop, hist>>
        /\ \A k \in Loaders \ {l} : ld'[k] = ld[k]

C20_LoadConfigNotFound == [](C20_NotFound) /\ [][C20_Step]_vars

\* One LoadConfig call loaded the file and started its watcher loop; another,
\* on a path without a file, returned ErrConfigNotFound and the snapshot of
\* the first is still the current one.
C20_Witness ==
    \E l, k \in Loaders :
      /\ ld[l].res = "notfound" /\ ld[l].path = "elsewhere"
      /\ ld[k].res = "ok" /\ ld[k].loop
      /\ currentConfig = LoadAddr(k)

Executing == {t \in Timers : reload[t].pc \in {"read", "decode", "store", "lock", "fanout"}}

\* C22 (reloads are serialised) as claimed: at most one reload execution is
\* in progress at any moment.
C22_NoOverlap ==
    Cardinality(Executing) <= 1

\* Nothing is left to do: no event waits, no timer is pending, no reload runs
Quiet ==
    /\ events = <<>>
    /\ Pending = {}
    /\ Executing = {}

\* C23 (convergence to the file) as claimed: Init has completed, every write
\* of the file produced a Write event, no read of a reload failed, the final
\* content decodes and nothing is left to do; then GetCfg returns the decode
\* of the final content.
C23_Converges ==
    ( /\ body.pc = "done"
      /\ Quiet
      /\ hist.writes > 0
      /\ timer = hist.writes
      /\ Decodes(file)
      /\ \A t \in Timers : reload[t].failed => reload[t].data # Absent ) =>
      /\ GetCfgResult(Load(currentConfig)).kind = "snap"
      /\ heap[currentConfig] = Decode(file)

\* C24 (only Write events drive the debounce): the step in which the loop
\* receives an event without the Write bit, and the step in which it receives
\* a transport error, leave the timer, the reload executions, the store, the
\* handler list and the callbacks as they are and the loop running; the
\* second adds one error entry to the log.
C24_Step ==
    /\ (events # <<>> /\ events' = Tail(events) /\ Head(events) # "write") =>
         /\ UNCHANGED <<timer, timers, reload, currentConfig, heap, changeHandlers,
                        cb, calls, hist>>
         /\ loop' = "running"
    /\ (errors' = errors - 1) =>
         /\ UNCHANGED <<timer, timers, reload, currentConfig, heap, changeHandlers,
                        cb, calls>>
         /\ loop' = "running"
         /\ hist' = [hist EXCEPT !.errLogs = @ + 1]

C24_OnlyWrites == [][C24_Step]_vars

\* The loop has received an event of another kind and a transport error, has
\* logged the error, runs on, and the timer armed by a Write event is pending.
C24_Witness ==
    /\ hist.noise = 2
    /\ hist.errLogs = 1
    /\ events = <<>> /\ errors = 0
    /\ loop = "running"
    /\ timer = 1 /\ timers[1] = "pending"
    /\ currentConfig = InitAddr

\* C25 (wholesale replacement): the snapshot a reload has published is the
\* decode of the bytes it read into a new zero-valued T; a key those bytes do
\* not have has T's zero value.
C25_Wholesale ==
    \A t \in Timers :
      ReloadAddr(t) \in Range(hist.stores) =>
        /\ Decodes(reload[t].data)
        /\ hist.published[ReloadAddr(t)] = Decode(reload[t].data)
        /\ \A f \in Fields :
             Payload(reload[t].data).set[f] = 0 =>
               hist.published[ReloadAddr(t)][f] = ZeroT[f]

\* Init seeded a snapshot with a name; a reload of a file without a name key
\* has replaced it, and the current name is the zero value.
C25_Witness ==
    \E t \in Timers :
      /\ hist.stores = <<InitAddr, ReloadAddr(t)>>
      /\ currentConfig = ReloadAddr(t)
      /\ reload[t].data = "B"
      /\ hist.published[InitAddr].name # ZeroT.name
      /\ heap[currentConfig].name = ZeroT.name

\* C26 (publish before notify): a callback that has been started for a
\* reload was given the address that reload stored, the store came first,
\* and the snapshot has the content it was published with; the callbacks of
\* one fan-out round are given the same address.
C26_PublishBeforeNotify ==
    \A t \in Timers, h \in Handlers :
      /\ calls[t][h] > 0 =>
           /\ hist.args[t][h] = ReloadAddr(t)
           /\ ReloadAddr(t) \in Range(hist.stores)
           /\ heap[hist.args[t][h]] = hist.published[ReloadAddr(t)]
      /\ calls[t][h] = 0 => hist.args[t][h] = Nil

\* Both handlers were started for one reload with the snapshot it stored,
\* after another reload had already replaced that snapshot in the store.
C26_Witness ==
    \E t \in Timers :
      /\ calls[t][1] = 1 /\ calls[t][2] = 1
      /\ hist.args[t][1] = ReloadAddr(t) /\ hist.args[t][2] = ReloadAddr(t)
      /\ currentConfig # ReloadAddr(t)
      /\ reload[t].pc = "done"

\* C27 (delivery order per subscriber) as claimed: when a handler has been
\* started for two reloads, it was started first for the one that stored
\* first.
C27_DeliveryOrder ==
    \A h \in Handlers, t1 \in Timers, t2 \in Timers :
      ( /\ calls[t1][h] = 1 /\ calls[t2][h] = 1
        /\ Pos(hist.stores, ReloadAddr(t1)) < Pos(hist.stores, ReloadAddr(t2)) ) =>
        Pos(hist.rounds, t1) < Pos(hist.rounds, t2)

\* How the load of an existing file failed in Init
ReadFailed == body.stat = "exists" /\ body.data = Absent /\ body.pc # "read"
DecodeFailed == body.data # Absent /\ ~Decodes(body.data) /\ body.pc # "decodeFile"

\* C28 (a file that cannot be loaded is not fatal): when the read or the
\* decode of the existing file failed and the default payload decodes, Init
\* has logged one error and goes on: it has not panicked before the store,
\* it panics only where the creation or the attach of the watcher fails, and
\* otherwise it ends with the watch attached and the loop started.
C28_NonFatal ==
    ((ReadFailed \/ DecodeFailed) /\ Decodes(Def)) =>
      /\ body.errs = 1
      /\ body.pc \in {"decodeDefault", "store"} \/ InitSeeded
      /\ body.pc = "panicked" => watcher \in {"none", "closed"}
      /\ body.pc = "done" => (watcher = "attached" /\ loop = "running")
      /\ InitSeeded => hist.stores[1] = InitAddr

\* Init found a file that does not decode, logged the error, seeded the store
\* and ended with the watcher loop running.
C28_Witness ==
    /\ body.pc = "done"
    /\ DecodeFailed
    /\ Decodes(Def)
    /\ body.errs = 1
    /\ loop = "running"
    /\ currentConfig = InitAddr

\* C29 (an empty file does not decode): Init on an existing empty file seeds
\* the decode of the default payload; a reload that read an empty file has
\* ended without a store and without starting a callback.
EmptyFile == "S"

C30_AttachBeforeLoop ==
    /\ loop # "none" => (watcher = "attached" /\ body.pc = "done")
    /\ body.pc = "panicked" => (loop = "none" /\ watcher \in {"none", "closed"})
    /\ watcher = "closed" => body.pc = "panicked"

\* The attach failed after the store was seeded: the watcher is closed, no
\* loop runs, and a later Init call has returned without starting one.
C30_Witness ==
    /\ body.pc = "panicked"
    /\ watcher = "closed"
    /\ InitSeeded
    /\ loop = "none"
    /\ \E c \in Callers : caller[c].pc = "returned"

\* C31 (Init states are terminal): once the closure of initOnce.Do has ended,
\* by returning or by panicking, the Once is done and the closure has started
\* exactly once; from then on no step starts it again or changes the logger,
\* the watcher or the watcher loop, an Init call only returns, leaving the
\* file, the snapshots and the store as they are, and the file changes only
\* when something outside the manager writes it.
C31_Ended == body.pc \in {"done", "panicked"}

C31_Step ==
    C31_Ended =>
      /\ UNCHANGED <<body, once, cfgLog, watcher, loop>>
      /\ hist'.bodyRuns = hist.bodyRuns
      /\ file' # file => hist'.writes # hist.writes
      /\ body.pc = "panicked" => UNCHANGED <<currentConfig, heap>>
      /\ \A c \in Callers :
           caller'[c] # caller[c] =>
             /\ caller'[c].pc = "returned"
             /\ UNCHANGED <<file, heap, currentConfig, hist>>

C31_Terminal ==
    /\ [](C31_Ended => (once = "done" /\ hist.bodyRuns = 1))
    /\ [][C31_Step]_vars

\* The closure panicked before it created a file, stored a snapshot or made
\* a watcher, the panic was recovered, and a later Init call has returned
\* with none of the three done.
C31_Witness ==
    \E c \in Callers :
      /\ caller[c].pc = "returned"
      /\ body.by # c
      /\ body.pc = "panicked"
      /\ ~crashed
      /\ file = Absent
      /\ currentConfig = Nil
      /\ watcher = "none"
      /\ loop = "none"

\* C32 (reads and publication never wait on the registry lock): a GetCfg call
\* that has been entered can complete in every state, and a reload that has
\* decoded can store in every state, whoever holds handlerMutex; a reload
\* holds handlerMutex only after its store, so a reload waiting for the lock
\* has already published its snapshot; and every GetCfg call returned the
\* snapshot that was current when it loaded.
C32_NoWaitOnRegistry ==
    /\ \A r \in Readers :
         (rd[r].pc = "called" /\ ~crashed) => ENABLED GetCfg(r)
    /\ \A t \in Timers :
         /\ (reload[t].pc = "store" /\ ~crashed) => ENABLED ReloadStore(t)
         /\ reload[t].pc \in {"read", "decode", "store", "lock"} =>
              handlerMutex # [k |-> "reload", id |-> t]
         /\ reload[t].pc = "lock" => ReloadAddr(t) \in Range(hist.stores)
    /\ \A r \in Readers :
         (rd[r].pc = "done" /\ rd[r].at > 0) =>
           /\ rd[r].kind = "snap"
           /\ rd[r].addr = hist.stores[rd[r].at]

\* A registration holds handlerMutex and both reloads, having stored, wait
\* for the lock; a GetCfg call that began after the first of the two stores
\* has returned the snapshot of the second.
C32_Witness ==
    /\ reg[1] = "locked"
    /\ handlerMutex = [k |-> "reg", id |-> 1]
    /\ reload[1].pc = "lock"
    /\ reload[2].pc = "lock"
    /\ rd[1].pc = "done"
    /\ rd[1].addr = ReloadAddr(2)
    /\ rd[1].floor = 2

\* C33 (published snapshots are never mutated): every snapshot that was
\* stored, whether or not it is still current, has the field values it was
\* stored with, and so has every snapshot a GetCfg call returned or a
\* callback received; a GetCfg call after whose load nothing has been stored
\* returned the snapshot that a call made now returns.
C33_Immutable ==
    /\ \A a \in Range(hist.stores) : heap[a] = hist.published[a]
    /\ \A r \in Readers :
         (rd[r].pc = "done" /\ rd[r].kind = "snap") =>
           /\ rd[r].addr \in Range(hist.stores)
           /\ heap[rd[r].addr] = hist.published[rd[r].addr]
    /\ \A t \in Timers, h \in Handlers :
         hist.args[t][h] # Nil =>
           /\ hist.args[t][h] \in Range(hist.stores)
           /\ heap[hist.args[t][h]] = hist.published[hist.args[t][h]]
    /\ \A r \in Readers :
         (rd[r].pc = "done" /\ rd[r].at > 0 /\ rd[r].at = Len(hist.stores)) =>
           /\ rd[r].kind = "snap"
           /\ rd[r].addr = currentConfig

\* A reader holds Init's snapshot and a callback holds the first reload's;
\* a second reload has since stored a snapshot that differs from both, and
\* neither of the two has changed.
C33_Witness ==
    /\ rd[1].pc = "done"
    /\ rd[1].addr = InitAddr
    /\ hist.args[1][1] = ReloadAddr(1)
    /\ currentConfig = ReloadAddr(2)
    /\ heap[ReloadAddr(2)] # heap[ReloadAddr(1)]
    /\ heap[ReloadAddr(2)] # heap[InitAddr]
    /\ heap[ReloadAddr(1)] # ZeroT

\* C34 (callbacks fire only on successful hot reloads): a step that invokes a
\* callback is a fan-out step of a reload that decoded and stored, for a
\* handler whose registration is complete; it is not a step of Init, of
\* OnConfigChange, or of the loop receiving an event or an error. A reload
\* invokes a handler at most once and a failed reload invokes none, so a
\* handler's invocations are no more than the reloads that stored and took
\* the registry lock after its registration.
C34_Invocation ==
    \A t \in Timers, h \in Handlers :
      calls'[t][h] # calls[t][h] =>
        /\ calls'[t][h] = calls[t][h] + 1
        /\ reload[t].pc = "fanout"
        /\ ~reload[t].failed
        /\ ReloadAddr(t) \in Range(hist.stores)
        /\ reg[h] = "done"
        /\ UNCHANGED <<body, caller, once, reg, changeHandlers, events, errors,
                       timer, timers, currentConfig>>

C34_Count ==
    \A h \in Handlers :
      /\ \A t \in Timers :
           /\ calls[t][h] <= 1
           /\ reload[t].failed => calls[t][h] = 0
           /\ calls[t][h] > 0 => h \in hist.seen[t]
      /\ Cardinality({t \in Timers : calls[t][h] > 0}) <=
           Cardinality({t \in Timers :
                          ReloadAddr(t) \in Range(hist.stores) /\ h \in hist.seen[t]})
      /\ reg[h] # "done" => \A t \in Timers : calls[t][h] = 0

C34_OnlyOnReload == [](C34_Count) /\ [][C34_Invocation]_vars

\* The subscriber was registered; Init finished; the loop received a chmod
\* event and a transport error; one reload failed and one stored: the
\* callback has been invoked once.
C34_Witness ==
    /\ reg[1] = "done"
    /\ body.pc = "done"
    /\ events = <<>>
    /\ errors = 0
    /\ hist.noise >= 2
    /\ hist.errLogs >= 1
    /\ \E t \in Timers : reload[t].failed /\ reload[t].pc = "done"
    /\ \E t \in Timers : calls[t][1] = 1 /\ reload[t].pc = "done"
    /\ Cardinality({t \in Timers : calls[t][1] > 0}) = 1
    /\ Len(hist.stores) = 2

\* C35 (no lost edit during initialisation) as claimed: Init read the file
\* and completed, the file was then rewritten with other content that
\* decodes before the watch was attached, so that no Write event was ever
\* received, and nothing is left to do; then GetCfg returns the decode of
\* the file's content.
C35_NoLostEdit ==
    ( /\ body.pc = "done"
      /\ body.data # Absent
      /\ hist.writes > 0
      /\ timer = 0
      /\ Quiet
      /\ file # body.data
      /\ Decodes(file) ) =>
      /\ GetCfgResult(Load(currentConfig)).kind = "snap"
      /\ heap[GetCfgResult(Load(currentConfig)).addr] = Decode(file)

\* C36 (no type assertion can fail) as claimed: no GetCfg call ends in a
\* panic, whatever type parameter it was made with, and a call made with a
\* type other than Init's returns a pointer as a call with Init's type does.
C36_NoFailedAssertion ==
    \A r \in Readers :
      /\ rd[r].pc # "panicked"
      /\ rd[r].pc = "done" => rd[r].kind \in {"fresh", "snap"}

\* C37 (LoadConfig is all-or-nothing) as claimed: a LoadConfig call that
\* returned an error has stored no snapshot, so the current snapshot is not
\* one of its making, and has started no watcher loop.
C37_AllOrNothing ==
    \A l \in Loaders :
      (ld[l].pc = "returned" /\ ld[l].res # "ok") =>
        /\ LoadAddr(l) \notin Range(hist.stores)
        /\ currentConfig # LoadAddr(l)
        /\ ~ld[l].loop

\* C38 (at most one watcher loop per process) as claimed: counting the loop
\* Init started and the loops LoadConfig calls started, at most one watcher
\* loop is running.
C38_OneLoop ==
    Cardinality({l \in Loaders : ld[l].loop}) + (IF loop = "running" THEN 1 ELSE 0) <= 1

====
